---- MODULE Spec2Model ----
(***************************************************************************)
(* Heart Track: the measurement routes (ingestion, summaries, weekly       *)
(* chart, per-date listing) of src/routes/measurements.js over the         *)
(* Measurement and Device collections of src/routes/auth.js, the device    *)
(* routes of src/unnamed/part_001, the profile routes of                   *)
(* src/unnamed/part_000 and the chat page of src/unnamed/part_002.         *)
(*                                                                         *)
(* Representation.                                                         *)
(*  - A JavaScript Number n is held as the integer n * Scale, so that the  *)
(*    non-integer readings the device routes accept (60.5) are values of   *)
(*    the model.  Sums, Math.min and Math.max are exact on these values.   *)
(*  - A Date is its time value in milliseconds, counted from the instant   *)
(*    EpochDay days after 1970-01-01T00:00:00.000Z.                        *)
(*  - A string that the code compares or sorts is the sequence of its      *)
(*    UTF-16 code units.                                                   *)
(*  - The Measurement collection is the bag of its documents without      *)
(*    their _id; the Device and User collections are sets of documents.    *)
(***************************************************************************)
EXTENDS Integers, Sequences, FiniteSets, Bags, TLC

VARIABLES
  now,       \* the server clock: the value every new Date() of a request reads
  tz,        \* the server's time zone: local time = UTC + tz (milliseconds)
  devices,   \* the Device collection
  users,     \* the User collection
  store,     \* the Measurement collection
  pending,   \* the requests whose handler waits at an await, with what it holds
  issued,    \* how many Device documents were ever created (ids and keys do not recur)
  page,      \* the chat page of one browser: its script's state and its DOM
  req,       \* the request answered last, as far as its handler read it
  res        \* the response to the request answered last

vars == <<now, tz, devices, users, store, pending, issued, page, req, res>>

----------------------------------------------------------------------------
(* Bounds of the model *)

MaxStore == 3        \* documents in the Measurement collection, aggregation runs
MaxWindowStore == 2  \* documents in the Measurement collection, window runs
MaxBatch == 2        \* entries of one POST /batch payload
MaxBoundaryStore == 3 \* documents in the Measurement collection, boundary runs
MaxIngestStore == 3   \* documents in the Measurement collection, ingestion runs
MaxCareStore == 2     \* documents in the Measurement collection, physician runs
StartDay == 14       \* the server's calendar day at start, in days after time 0

----------------------------------------------------------------------------
(* Numbers *)

Scale == 2

Num(n) == n * Scale

Half == Scale \div 2

\* Math.round(s / n) for n > 0: the nearest integer, a tie going to +Infinity.
MathRound(s, n) == ((2 * s + n * Scale) \div (2 * n * Scale)) * Scale

IsInteger(x) == x % Scale = 0

----------------------------------------------------------------------------
(* Dates *)

EpochDay == 20075    \* 2024-12-18, as days after 1970-01-01

MsPerHour == 60 * 60 * 1000

MsPerDay == 24 * MsPerHour

\* Date.prototype.setHours(0,0,0,0): midnight of t's day in the server's zone.
setHoursMidnight(t, zone) == ((t + zone) \div MsPerDay) * MsPerDay - zone

\* Date.prototype.setHours(23,59,59,999)
setHoursEndOfDay(t, zone) == setHoursMidnight(t, zone) + MsPerDay - 1

\* Date.prototype.setDate(getDate() + n): the day field moved by n, the time of
\* day kept (the zone has no daylight saving shifts).
addDays(t, n) == (t \div MsPerDay + n) * MsPerDay + (t % MsPerDay)

\* The civil date <<year, month, day>> of a count of days after 1970-01-01.
CivilFromDays(days) ==
  LET z   == days + 719468
      era == z \div 146097
      doe == z - era * 146097
      yoe == (doe - doe \div 1460 + doe \div 36524 - doe \div 146096) \div 365
      doy == doe - (365 * yoe + yoe \div 4 - yoe \div 100)
      mp  == (5 * doy + 2) \div 153
      d   == doy - (153 * mp + 2) \div 5 + 1
      m   == IF mp < 10 THEN mp + 3 ELSE mp - 9
      y   == yoe + era * 400 + (IF m <= 2 THEN 1 ELSE 0)
  IN  <<y, m, d>>

\* The code unit of a decimal digit, and of "-".
Digit(n) == 48 + n

Hyphen == <<45>>

Pad2(n) == <<Digit(n \div 10), Digit(n % 10)>>

Pad4(n) == <<Digit(n \div 1000), Digit((n \div 100) % 10)>> \o Pad2(n % 100)

\* date.toISOString().split('T')[0]: "YYYY-MM-DD" of the UTC day of t.
toISODate(t) ==
  LET c == CivilFromDays(EpochDay + t \div MsPerDay)
  IN  Pad4(c[1]) \o Hyphen \o Pad2(c[2]) \o Hyphen \o Pad2(c[3])

\* new Date("YYYY-MM-DD"): UTC midnight of that date, given as its day after time 0.
parseDate(day) == day * MsPerDay

\* StrLess with the comparison reversed
RECURSIVE StrLessReversed(_, _)
StrLessReversed(a, b) ==
  IF a = <<>> THEN FALSE
  ELSE IF b = <<>> THEN TRUE
  ELSE IF Head(a) # Head(b) THEN Head(a) > Head(b)
  ELSE StrLessReversed(Tail(a), Tail(b))

\* a < b for strings, as Array.prototype.sort() orders them: by code units.
RECURSIVE StrLess(_, _)
StrLess(a, b) ==
  IF b = <<>> THEN FALSE
  ELSE IF a = <<>> THEN TRUE
  ELSE IF Head(a) # Head(b) THEN Head(a) < Head(b)
  ELSE StrLess(Tail(a), Tail(b))

----------------------------------------------------------------------------
(* Array helpers *)

\* arr.reduce((a,b) => a+b, 0)
RECURSIVE Sum(_)
Sum(arr) == IF arr = <<>> THEN 0 ELSE Head(arr) + Sum(Tail(arr))

\* MathMin taking the first element for the least
FirstElement(arr) == arr[1]

\* Math.min(...arr) and Math.max(...arr) of a non-empty array
RECURSIVE MathMin(_)
MathMin(arr) ==
  IF Len(arr) = 1 THEN arr[1]
  ELSE LET m == MathMin(Tail(arr)) IN IF Head(arr) < m THEN Head(arr) ELSE m

RECURSIVE MathMax(_)
MathMax(arr) ==
  IF Len(arr) = 1 THEN arr[1]
  ELSE LET m == MathMax(Tail(arr)) IN IF Head(arr) > m THEN Head(arr) ELSE m

\* arr.map(m => m.heartRate), arr.map(m => m.bloodOxygen)
HeartRates(ms) == [i \in 1..Len(ms) |-> ms[i].heartRate]

BloodOxygens(ms) == [i \in 1..Len(ms) |-> ms[i].bloodOxygen]

\* Average with Math.floor in place of Math.round
AverageFloor(arr) == (Sum(arr) \div (Len(arr) * Scale)) * Scale

\* Math.round(arr.reduce((a,b) => a+b, 0) / arr.length)
Average(arr) == MathRound(Sum(arr), Len(arr))

----------------------------------------------------------------------------
(* Values that a request may leave out: <<>> is undefined, <<v>> is v. *)

Undefined == <<>>

Some(v) == <<v>>

Opt(S) == {Undefined} \cup {Some(v) : v \in S}

\* x || d
OrElse(x, d) == IF x = Undefined THEN d ELSE x[1]

----------------------------------------------------------------------------
(* The database at start: two registered users, one registered device each *)

UserIds == {"u1", "u2"}

RegisteredAt == addDays(StartDay * MsPerDay, -1)

\* The _id of the n-th Device document ever created, and the apiKey that
\* crypto.randomBytes(32) gave it: neither recurs
DeviceObjectId(n) == "d" \o ToString(n)

RandomApiKey(n) == "k" \o ToString(n)

\* The Device collection at start: user n registered the hardware "hw<n>"
InitDevices ==
  { [_id |-> DeviceObjectId(1), deviceId |-> "hw1", deviceName |-> "watch", owner |-> "u1",
     apiKey |-> RandomApiKey(1), lastConnected |-> RegisteredAt],
    [_id |-> DeviceObjectId(2), deviceId |-> "hw2", deviceName |-> "watch", owner |-> "u2",
     apiKey |-> RandomApiKey(2), lastConnected |-> RegisteredAt] }

\* The User collection at start: nobody has a physician assigned, and each
\* user's devices list holds the device the user registered
InitUsers ==
  {[_id |-> u, email |-> u \o "@example.com", password |-> "hash of " \o u,
    fullName |-> "name", physician |-> Undefined,
    devices |-> SelectSeq(<<DeviceObjectId(1), DeviceObjectId(2)>>,
                          LAMBDA id : \E d \in InitDevices : d._id = id /\ d.owner = u)] :
     u \in UserIds}

\* The api_key values of requests: none, every key ever given to a device, a
\* key that never was.
ApiKeys == {Undefined, Some("k0")} \cup {Some(RandomApiKey(n)) : n \in 1..issued}

\* The bearer tokens of requests: none, or one signed for a user id.
Tokens == {Undefined} \cup {Some(u) : u \in UserIds}

\* The Physician collection: two registered physicians
PhysicianIds == {"p1", "p2"}

\* The bearer tokens of the routes physicians call too: a token signed at a
\* physician's login carries type 'physician' and the physician's id
Bearers == Tokens \cup {Some(p) : p \in PhysicianIds}

\* An id string that is a well-formed ObjectId of no document, and a string
\* that is no ObjectId
UnknownId == "000000000000000000000000"

Malformed == "not-an-id"

----------------------------------------------------------------------------
(* The chat page (src/unnamed/part_002).  A text is the sequence of its      *)
(* characters.                                                               *)

\* String.prototype.trim on the texts of the model: blanks off both ends
RECURSIVE Trim(_)
Trim(text) ==
  IF text = <<>> THEN text
  ELSE IF Head(text) = " " THEN Trim(Tail(text))
  ELSE IF text[Len(text)] = " " THEN Trim(SubSeq(text, 1, Len(text) - 1))
  ELSE text

\* The page when setupChatListeners has run: isWaiting (line 7), the value
\* and disabled of #chat-input (with #send-btn), the number of messages in
\* #chat-messages, whether #typing-indicator is shown, the bodies of the POST
\* /chat requests that have not completed, and the event handled last
InitPage ==
  [isWaiting |-> FALSE, value |-> <<>>, disabled |-> FALSE, messages |-> 0,
   typing |-> FALSE, requests |-> <<>>, reply |-> "none", event |-> "load"]

\* Messages in #chat-messages, those that outstanding requests will add included
MaxChatMessages == 6

\* What the user types into #chat-input
ChatTexts == {<<>>, <<" ">>, <<"h", "i">>, <<" ", "h", "i", " ">>}

\* The data-message of the suggestion buttons
SuggestionTexts == {<<"h", "i">>}

\* How POST /chat ends: data.success, a body without success, an error whose
\* message includes 'not configured', another error
ChatOutcomes == {"response", "no success", "not configured", "error"}

\* sendMessage without its first line
sendMessageUnguarded(p) ==
  IF Trim(p.value) = <<>> THEN p
  ELSE [p EXCEPT !.value = <<>>, !.messages = @ + 1, !.typing = TRUE,
                 !.disabled = TRUE, !.isWaiting = TRUE,
                 !.requests = Append(@, Trim(p.value))]

\* sendMessage up to its await, on the page p
sendMessage(p) ==
  IF p.isWaiting THEN p
  ELSE IF Trim(p.value) = <<>> THEN p
  ELSE [p EXCEPT !.value = <<>>, !.messages = @ + 1, !.typing = TRUE,
                 !.disabled = TRUE, !.isWaiting = TRUE,
                 !.requests = Append(@, Trim(p.value))]

\* The page after an event whose listener ran sendMessage, while the
\* messages, with the replies to come, stay within the bound
Handled(event, after) ==
  /\ after.messages + Len(after.requests) <= MaxChatMessages
  /\ page' = [after EXCEPT !.event = event]
  /\ UNCHANGED <<now, tz, devices, users, store, pending, issued, req, res>>

\* The user edits #chat-input, which takes no input while it is disabled
TypeText ==
  /\ ~page.disabled
  /\ \E text \in ChatTexts : page' = [page EXCEPT !.value = text, !.event = "input"]
  /\ UNCHANGED <<now, tz, devices, users, store, pending, issued, req, res>>

\* submit of #chat-form
Submit == Handled("submit", sendMessage(page))

\* keypress in #chat-input
Keypress ==
  \E key \in {"Enter", "a"}, shiftKey \in BOOLEAN :
    IF key = "Enter" /\ ~shiftKey
      THEN Handled("keypress", sendMessage(page))
      ELSE Handled("keypress", page)

\* click on a .suggestion-btn
Click ==
  \E text \in SuggestionTexts :
    Handled("click", sendMessage([page EXCEPT !.value = text]))

\* sendMessage after its await: the request that is outstanding longest ends
Complete ==
  /\ page.requests # <<>>
  /\ \E outcome \in ChatOutcomes :
       page' = [page EXCEPT !.requests = Tail(@), !.typing = FALSE,
                            !.messages = @ + 1, !.reply = outcome,
                            !.disabled = FALSE, !.isWaiting = FALSE,
                            !.event = "complete"]
  /\ UNCHANGED <<now, tz, devices, users, store, pending, issued, req, res>>

----------------------------------------------------------------------------
(* Collections *)

\* DeviceFindOne with an empty filter
DeviceFindAny(apiKey) == devices

\* Device.findOne({ apiKey }): the matching documents (at most one: apiKey is unique)
DeviceFindOne(apiKey) == {d \in devices : d.apiKey = apiKey}

\* Device.findByIdAndUpdate(id, { lastConnected: new Date() })
DeviceTouch(id) ==
  {IF d._id = id THEN [d EXCEPT !.lastConnected = now] ELSE d : d \in devices}

\* The number of stored measurements
Count(coll) == BagCardinality(coll)

\* The documents of a collection that satisfy a query, as a bag
Select(coll, Test(_)) ==
  LET hit == {d \in BagToSet(coll) : Test(d)}
  IN  [d \in hit |-> coll[d]]

\* Every order in which the documents of a bag can be returned
RECURSIVE Orderings(_)
Orderings(bag) ==
  IF BagToSet(bag) = {} THEN {<<>>}
  ELSE UNION {{<<d>> \o rest : rest \in Orderings(bag (-) SetToBag({d}))} :
              d \in BagToSet(bag)}

\* The bag of the documents of an array
RECURSIVE BagOfSeq(_)
BagOfSeq(docs) ==
  IF docs = <<>> THEN EmptyBag ELSE SetToBag({Head(docs)}) (+) BagOfSeq(Tail(docs))

\* .sort({ timestamp: 1 }): ascending timestamps, equal ones in any order
SortedByTimestamp(ms) ==
  \A i \in 1..Len(ms) - 1 : ms[i].timestamp <= ms[i + 1].timestamp

\* InClosed without the userId condition
InClosedAnyUser(userId, from, to) ==
  Select(store, LAMBDA m : from <= m.timestamp /\ m.timestamp <= to)

\* InClosed with $lt in place of $lte
InClosedExclusiveEnd(userId, from, to) ==
  Select(store, LAMBDA m : m.userId = userId /\ from <= m.timestamp /\ m.timestamp < to)

\* Measurement.find({ userId, timestamp: { $gte: from, $lte: to } })
InClosed(userId, from, to) ==
  Select(store, LAMBDA m : m.userId = userId /\ from <= m.timestamp /\ m.timestamp <= to)

\* InHalfOpen with $lte in place of $lt
InHalfOpenInclusive(userId, from, to) ==
  Select(store, LAMBDA m : m.userId = userId /\ from <= m.timestamp /\ m.timestamp <= to)

\* InHalfOpen without the userId condition
InHalfOpenAnyUser(userId, from, to) ==
  Select(store, LAMBDA m : from <= m.timestamp /\ m.timestamp < to)

\* Measurement.find({ userId, timestamp: { $gte: from, $lt: to } })
InHalfOpen(userId, from, to) ==
  Select(store, LAMBDA m : m.userId = userId /\ from <= m.timestamp /\ m.timestamp < to)

----------------------------------------------------------------------------
(* Middleware *)

\* authenticate: the id the token was signed for, when that account exists
Authenticated(token) == token # Undefined /\ token[1] \in UserIds \cup PhysicianIds

\* req.userType
UserType(token) == IF token[1] \in PhysicianIds THEN "physician" ELSE "user"

\* SchemaValid with required alone, without min and max
SchemaValidPresent(m) == m.heartRate # Undefined /\ m.bloodOxygen # Undefined

\* measurementSchema validators: required, min, max
SchemaValid(m) ==
  /\ m.heartRate # Undefined /\ m.bloodOxygen # Undefined
  /\ Num(30) <= m.heartRate[1] /\ m.heartRate[1] <= Num(250)
  /\ Num(70) <= m.bloodOxygen[1] /\ m.bloodOxygen[1] <= Num(100)

\* measurementRules(): isFloat({ min, max }) on heartRate and on bloodOxygen
RulesValid(body) ==
  /\ body.heartRate # Undefined
  /\ Num(30) <= body.heartRate[1] /\ body.heartRate[1] <= Num(250)
  /\ body.bloodOxygen # Undefined
  /\ Num(70) <= body.bloodOxygen[1] /\ body.bloodOxygen[1] <= Num(100)

\* A response: the route, the HTTP status, the caller that authenticate resolved
\* ("" when there is none) and the JSON body (<<>> when the model keeps none)
Reply(op, status) == [op |-> op, status |-> status, userId |-> "", body |-> <<>>]

\* A request: the route and what the client sent (body fields, bearer token,
\* route parameters), as far as the handler read it before it answered
Request(op, sent) == [op |-> op, sent |-> sent]

\* The request of an ingestion route as a run keeps it: with what was sent
\* when in.log holds, the route alone otherwise (no claim of such a run reads it)
Sent(in, op, sent) == Request(op, IF in.log THEN sent ELSE <<>>)

----------------------------------------------------------------------------
(* Ingestion.  `in` bounds the request bodies of a run and the collection: *)
(* in.samples (pairs of values), in.instants (timestamps), in.cap, in.log.  *)

Insert(request, docs, device, reply, in) ==
  /\ Count(store) + Len(docs) <= in.cap
  /\ store' = store (+) BagOfSeq(docs)
  /\ devices' = DeviceTouch(device._id)
  /\ req' = request
  /\ res' = reply
  /\ UNCHANGED <<now, tz, users, pending, issued, page>>

Reject(request, reply) ==
  /\ req' = request
  /\ res' = reply
  /\ UNCHANGED <<now, tz, devices, users, store, pending, issued, page>>

\* The document the webhook branch builds
WebhookDoc(device, body) ==
  [userId |-> device.owner, deviceId |-> device._id,
   heartRate |-> MathRound(body.heart_rate[1], 1),
   bloodOxygen |-> MathRound(body.spo2[1], 1),
   timestamp |-> OrElse(body.timestamp, now), wasOffline |-> FALSE]

\* POST /api/measurements with a Particle webhook body (heart_rate or spo2 present).
\* s.heartRate and s.bloodOxygen are the body's heart_rate and spo2; the body's
\* valid and timestamp are chosen where the code first reads them.
PostWebhook(in) ==
  \E key \in ApiKeys :
    LET op == "POST / webhook"
        keyed == [api_key |-> key]
    IN  IF key = Undefined THEN Reject(Sent(in, op, keyed), Reply(op, 401))
        ELSE IF DeviceFindOne(key[1]) = {} THEN Reject(Sent(in, op, keyed), Reply(op, 401))
        ELSE \E s \in in.samples :
          LET read == keyed @@ [heart_rate |-> s.heartRate, spo2 |-> s.bloodOxygen]
          IN
          /\ ~(s.heartRate = Undefined /\ s.bloodOxygen = Undefined)
          /\ IF s.heartRate = Undefined \/ s.bloodOxygen = Undefined
               THEN Reject(Sent(in, op, read), Reply(op, 400))
             ELSE IF s.heartRate[1] < Num(30) \/ s.heartRate[1] > Num(250)
               THEN Reject(Sent(in, op, read), Reply(op, 400))
             ELSE IF s.bloodOxygen[1] < Num(70) \/ s.bloodOxygen[1] > Num(100)
               THEN Reject(Sent(in, op, read), Reply(op, 400))
             ELSE \E valid \in BOOLEAN :
               IF valid
                 THEN \E ts \in Opt(in.instants), device \in DeviceFindOne(key[1]) :
                   LET body == read @@ [timestamp |-> ts, valid |-> valid]
                   IN  Insert(Sent(in, op, body), <<WebhookDoc(device, body)>>, device,
                              Reply(op, 201), in)
               ELSE Reject(Sent(in, op, read @@ [valid |-> valid]), Reply(op, 200))

\* The document the device-authenticated handler builds
MeasurementDoc(device, body) ==
  [userId |-> device.owner, deviceId |-> device._id,
   heartRate |-> body.heartRate[1], bloodOxygen |-> body.bloodOxygen[1],
   timestamp |-> OrElse(body.timestamp, now),
   wasOffline |-> OrElse(body.wasOffline, FALSE)]

\* POST /api/measurements, device-authenticated (neither heart_rate nor spo2 present):
\* authenticateDevice, measurementRules(), validate, then the handler.
PostMeasurement(in) ==
  \E key \in ApiKeys :
    LET op == "POST /"
        keyed == [api_key |-> key]
    IN  IF key = Undefined THEN Reject(Sent(in, op, keyed), Reply(op, 401))
        ELSE IF DeviceFindOne(key[1]) = {} THEN Reject(Sent(in, op, keyed), Reply(op, 401))
        ELSE \E s \in in.samples :
          LET read == keyed @@ [heartRate |-> s.heartRate, bloodOxygen |-> s.bloodOxygen]
          IN
          IF ~RulesValid(s) THEN Reject(Sent(in, op, read), Reply(op, 400))
          ELSE \E ts \in Opt(in.instants), off \in in.offline,
                  device \in DeviceFindOne(key[1]) :
            LET body == read @@ [timestamp |-> ts, wasOffline |-> off]
            IN  Insert(Sent(in, op, body), <<MeasurementDoc(device, body)>>, device,
                       Reply(op, 201), in)

\* { ...m }: the fields a payload entry carries, with their values
Spread(m) == [f \in {g \in DOMAIN m : m[g] # Undefined} |-> m[f][1]]

\* BatchDoc with the payload's fields spread after the handler's
BatchDocPayloadLast(device, m) ==
  Spread(m) @@ [userId |-> device.owner, deviceId |-> device._id, wasOffline |-> TRUE]
            @@ [timestamp |-> now]

\* One element of toInsert, as a document: the handler's userId, deviceId and
\* wasOffline over the entry's own fields, the schema's default for a timestamp
\* the entry leaves out
BatchDoc(device, m) ==
  [userId |-> device.owner, deviceId |-> device._id, wasOffline |-> TRUE]
    @@ Spread(m) @@ [timestamp |-> now]

\* The payloads of POST /batch: no array, or an array of up to MaxBatch entries
\* (of no more entries than the collection's bound leaves room for); an entry
\* carries its values and timestamp, and the entries of one array all carry
\* the fields of one of in.tags
BatchPayloads(in) ==
  LET Entry(tag) ==
        {[heartRate |-> s.heartRate, bloodOxygen |-> s.bloodOxygen, timestamp |-> ts]
           @@ tag : s \in in.samples, ts \in Opt(in.instants)}
      room == in.cap - Count(store)
      most == IF room < MaxBatch THEN room ELSE MaxBatch
  IN  {Undefined} \cup
      {Some(a) : a \in UNION {[1..n -> Entry(tag)] : n \in 0..most, tag \in in.tags}}

\* POST /batch with the array test ahead of authenticateDevice
PostBatchArrayFirst(in) ==
  \E key \in ApiKeys, measurements \in BatchPayloads(in) :
    LET op == "POST /batch"
        body == [api_key |-> key, measurements |-> measurements]
    IN  IF measurements = Undefined \/ measurements = Some(<<>>)
          THEN Reject(Sent(in, op, body), Reply(op, 400))
        ELSE IF key = Undefined THEN Reject(Sent(in, op, body), Reply(op, 401))
        ELSE IF DeviceFindOne(key[1]) = {} THEN Reject(Sent(in, op, body), Reply(op, 401))
        ELSE LET arr == measurements[1] IN
          IF \E i \in 1..Len(arr) : ~SchemaValid(arr[i])
            THEN Reject(Sent(in, op, body), Reply(op, 500))
          ELSE \E device \in DeviceFindOne(key[1]) :
                 Insert(Sent(in, op, body),
                        [i \in 1..Len(arr) |-> BatchDoc(device, arr[i])], device,
                        Reply(op, 201), in)

\* POST /api/measurements/batch
PostBatch(in) ==
  \E key \in ApiKeys :
    LET op == "POST /batch"
        keyed == [api_key |-> key]
    IN  IF key = Undefined THEN Reject(Sent(in, op, keyed), Reply(op, 401))
        ELSE IF DeviceFindOne(key[1]) = {} THEN Reject(Sent(in, op, keyed), Reply(op, 401))
        ELSE \E measurements \in BatchPayloads(in) :
          LET body == keyed @@ [measurements |-> measurements]
          IN
          IF measurements = Undefined \/ measurements = Some(<<>>)
            THEN Reject(Sent(in, op, body), Reply(op, 400))
          ELSE LET arr == measurements[1] IN
            IF \E i \in 1..Len(arr) : ~SchemaValid(arr[i])
              THEN Reject(Sent(in, op, body), Reply(op, 500))
            ELSE \E device \in DeviceFindOne(key[1]) :
                   Insert(Sent(in, op, body),
                          [i \in 1..Len(arr) |-> BatchDoc(device, arr[i])], device,
                          Reply(op, 201), in)

----------------------------------------------------------------------------
(* Aggregation *)

\* The six statistics and the count of a non-empty array of measurements
Stats(ms) ==
  LET hr == HeartRates(ms)
      o2 == BloodOxygens(ms)
  IN  [avgHeartRate |-> Average(hr), minHeartRate |-> MathMin(hr),
       maxHeartRate |-> MathMax(hr),
       avgBloodOxygen |-> Average(o2), minBloodOxygen |-> MathMin(o2),
       maxBloodOxygen |-> MathMax(o2),
       measurementCount |-> Len(ms)]

\* The summary answered when the query matches nothing
ZeroStats ==
  [avgHeartRate |-> 0, minHeartRate |-> 0, maxHeartRate |-> 0,
   avgBloodOxygen |-> 0, minBloodOxygen |-> 0, maxBloodOxygen |-> 0,
   measurementCount |-> 0]

\* m.timestamp.toISOString().split('T')[0]
DateKey(m) == toISODate(m.timestamp)

\* Object.keys(daily): the keys in the order the forEach created them
RECURSIVE ObjectKeys(_)
ObjectKeys(ms) ==
  IF ms = <<>> THEN <<>>
  ELSE LET before == ObjectKeys(SubSeq(ms, 1, Len(ms) - 1))
           key == DateKey(ms[Len(ms)])
       IN  IF \E i \in 1..Len(before) : before[i] = key THEN before
           ELSE Append(before, key)

\* Bucket pushing every measurement under every key
BucketAll(ms, key) == ms

\* daily[key]: the measurements pushed under a key, in the order pushed
Bucket(ms, key) == SelectSeq(ms, LAMBDA m : DateKey(m) = key)

\* keys.sort(): ascending by code units
RECURSIVE ArraySort(_)
ArraySort(keys) ==
  IF keys = <<>> THEN <<>>
  ELSE LET rest == ArraySort(Tail(keys))
           k == Head(keys)
           lower == SelectSeq(rest, LAMBDA x : StrLess(x, k))
           upper == SelectSeq(rest, LAMBDA x : ~StrLess(x, k))
       IN  lower \o <<k>> \o upper

\* One entry of dailyBreakdown
BreakdownEntry(ms, date) == [date |-> date] @@ Stats(Bucket(ms, date))

\* dailyBreakdown of the weekly summary
DailyBreakdown(ms) ==
  LET keys == ArraySort(ObjectKeys(ms))
  IN  [i \in 1..Len(keys) |-> BreakdownEntry(ms, keys[i])]

----------------------------------------------------------------------------
(* Queries of the summary and chart routes *)

\* sevenDaysAgo of the weekly summary and of the chart
SevenDaysAgo == addDays(setHoursMidnight(now, tz), -7)

\* thirtyDaysAgo of the monthly summary
ThirtyDaysAgo == addDays(setHoursMidnight(now, tz), -30)

\* endDate of the weekly and monthly summaries and of the chart
EndDate == setHoursEndOfDay(now, tz)

\* today and tomorrow of the daily summary
Today == setHoursMidnight(now, tz)

Tomorrow == addDays(Today, 1)

\* find(...).sort({ timestamp: 1 }) of the weekly summary and of the chart
WeeklyFind(userId) ==
  {ms \in Orderings(InClosed(userId, SevenDaysAgo, EndDate)) : SortedByTimestamp(ms)}

\* find(...).sort({ timestamp: 1 }) of the daily summary
DailyFind(userId) ==
  {ms \in Orderings(InHalfOpen(userId, Today, Tomorrow)) : SortedByTimestamp(ms)}

\* find(...) of the monthly summary: no sort, any order
MonthlyFind(userId) == Orderings(InClosed(userId, ThirtyDaysAgo, EndDate))

\* find(...).sort({ timestamp: 1 }) of the per-date listing
DateFind(userId, targetDate) ==
  {ms \in Orderings(InHalfOpen(userId, targetDate, addDays(targetDate, 1))) :
     SortedByTimestamp(ms)}

Answer(op, userId, body) ==
  [op |-> op, status |-> 200, userId |-> userId, body |-> body]

----------------------------------------------------------------------------
(* Summary, chart and listing routes *)

\* A weekly summary whose totals come from a second query, made when the
\* response is built, and whose breakdown comes from the first
WeeklySummaryRequery(ms) ==
  IF ms = <<>>
    THEN ZeroStats @@ [dailyBreakdown |-> <<>>, startDate |-> SevenDaysAgo,
                       endDate |-> EndDate]
    ELSE Stats(CHOOSE again \in WeeklyFind(ms[1].userId) : TRUE)
           @@ [dailyBreakdown |-> DailyBreakdown(ms), startDate |-> SevenDaysAgo,
               endDate |-> EndDate]

WeeklySummary(ms) ==
  IF ms = <<>>
    THEN ZeroStats @@ [dailyBreakdown |-> <<>>, startDate |-> SevenDaysAgo,
                       endDate |-> EndDate]
    ELSE Stats(ms) @@ [dailyBreakdown |-> DailyBreakdown(ms), startDate |-> SevenDaysAgo,
                       endDate |-> EndDate]

\* GET /api/measurements/summary/weekly
GetSummaryWeekly ==
  \E token \in Tokens :
    LET op == "GET /summary/weekly"
        asked == Request(op, [token |-> token])
    IN  IF ~Authenticated(token) THEN Reject(asked, Reply(op, 401))
        ELSE \E ms \in WeeklyFind(token[1]) :
               Reject(asked, Answer(op, token[1], WeeklySummary(ms)))

DailySummary(ms) ==
  IF ms = <<>>
    THEN ZeroStats @@ [date |-> toISODate(Today)]
    ELSE Stats(ms) @@ [date |-> toISODate(Today)]

\* GET /api/measurements/summary/daily
GetSummaryDaily ==
  \E token \in Tokens :
    LET op == "GET /summary/daily"
        asked == Request(op, [token |-> token])
    IN  IF ~Authenticated(token) THEN Reject(asked, Reply(op, 401))
        ELSE \E ms \in DailyFind(token[1]) :
               Reject(asked, Answer(op, token[1], DailySummary(ms)))

MonthlySummary(ms) ==
  IF ms = <<>>
    THEN ZeroStats @@ [startDate |-> ThirtyDaysAgo, endDate |-> EndDate]
    ELSE Stats(ms) @@ [startDate |-> ThirtyDaysAgo, endDate |-> EndDate]

\* GET /api/measurements/summary/monthly
GetSummaryMonthly ==
  \E token \in Tokens :
    LET op == "GET /summary/monthly"
        asked == Request(op, [token |-> token])
    IN  IF ~Authenticated(token) THEN Reject(asked, Reply(op, 401))
        ELSE \E ms \in MonthlyFind(token[1]) :
               Reject(asked, Answer(op, token[1], MonthlySummary(ms)))

\* The first value of the chart loop's counter: for (let i = 6; i >= 0; i--)
ChartFrom == 6

\* key of the loop's iteration i: midnight of the day i days back, as its ISO date
ChartKey(i) == toISODate(setHoursMidnight(addDays(now, -i), tz))

\* ChartValue pushing 0 for a day without readings
ChartValueZero(values) == IF values # <<>> THEN Some(Average(values)) ELSE Some(0)

\* What the iteration pushes to a series: the rounded average, or null (<<>>)
ChartValue(values) == IF values # <<>> THEN Some(Average(values)) ELSE Undefined

\* ChartLoop with the loop condition i > 0
RECURSIVE ChartLoopStrict(_, _)
ChartLoopStrict(ms, i) ==
  IF i <= 0 THEN [dates |-> <<>>, heartRate |-> <<>>, bloodOxygen |-> <<>>]
  ELSE LET key == ChartKey(i)
           rest == ChartLoopStrict(ms, i - 1)
       IN  [dates |-> <<key>> \o rest.dates,
            heartRate |-> <<ChartValue(HeartRates(Bucket(ms, key)))>> \o rest.heartRate,
            bloodOxygen |-> <<ChartValue(BloodOxygens(Bucket(ms, key)))>>
                              \o rest.bloodOxygen]

\* The three arrays after the iterations i, i-1, ..., 0
RECURSIVE ChartLoop(_, _)
ChartLoop(ms, i) ==
  IF i < 0 THEN [dates |-> <<>>, heartRate |-> <<>>, bloodOxygen |-> <<>>]
  ELSE LET key == ChartKey(i)
           rest == ChartLoop(ms, i - 1)
       IN  [dates |-> <<key>> \o rest.dates,
            heartRate |-> <<ChartValue(HeartRates(Bucket(ms, key)))>> \o rest.heartRate,
            bloodOxygen |-> <<ChartValue(BloodOxygens(Bucket(ms, key)))>>
                              \o rest.bloodOxygen]

WeeklyChart(ms) == ChartLoop(ms, ChartFrom)

\* GET /api/measurements/chart/weekly
GetChartWeekly ==
  \E token \in Tokens :
    LET op == "GET /chart/weekly"
        asked == Request(op, [token |-> token])
    IN  IF ~Authenticated(token) THEN Reject(asked, Reply(op, 401))
        ELSE \E ms \in WeeklyFind(token[1]) :
               Reject(asked, Answer(op, token[1], WeeklyChart(ms)))

\* GET /api/measurements/daily/:date; the parameter is a date "YYYY-MM-DD", given
\* as its day after time 0, or a string that new Date() cannot parse (Undefined)
GetDailyDate(in) ==
  \E token \in Tokens, date \in Opt(in.dates) :
    LET op == "GET /daily/:date"
        asked == Request(op, [token |-> token, date |-> date])
    IN  IF ~Authenticated(token) THEN Reject(asked, Reply(op, 401))
        \* targetDate is an Invalid Date: the handler still calls Measurement.find
        \* with it, the cast of the filter throws, and the catch answers 500
        ELSE IF date = Undefined THEN Reject(asked, Reply(op, 500))
        ELSE \E ms \in DateFind(token[1], parseDate(date[1])) :
               Reject(asked, Answer(op, token[1],
                             [date |-> date[1], count |-> Len(ms), measurements |-> ms]))

\* delete updates.email, .password, ._id that deletes nothing
UpdatesWhole(body) == body

\* updates of PUT /me: the body without email, password and _id
Updates(body) ==
  [f \in DOMAIN body \ {"email", "password", "_id"} |-> body[f]]

\* The document after { $set: updates }: paths outside the schema are
\* dropped; physician is kept as <<id>>
SetPaths(user, updates) ==
  [f \in DOMAIN user |->
     IF f \in DOMAIN updates
       THEN IF f = "physician" THEN Some(updates[f]) ELSE updates[f]
       ELSE user[f]]

\* user.toJSON()
ToJSON(user) == [f \in DOMAIN user \ {"password"} |-> user[f]]

\* PUT /api/users/me
PutMe(in) ==
  \E token \in in.bearers, body \in in.bodies :
    LET op == "PUT /me"
        asked == Request(op, [token |-> token, body |-> body])
        updates == Updates(body)
    IN  IF ~Authenticated(token) THEN Reject(asked, Reply(op, 401))
        \* a CastError for a physician that is no ObjectId
        ELSE IF "physician" \in DOMAIN updates /\ updates.physician = Malformed
          THEN Reject(asked, Reply(op, 500))
        \* findByIdAndUpdate gives null for a physician's id: user.toJSON() throws
        ELSE IF token[1] \notin {u._id : u \in users} THEN Reject(asked, Reply(op, 500))
        ELSE \E user \in {u \in users : u._id = token[1]} :
               LET updated == SetPaths(user, updates)
               IN  /\ users' = (users \ {user}) \cup {updated}
                   /\ req' = asked
                   /\ res' = Answer(op, token[1], ToJSON(updated))
                   /\ UNCHANGED <<now, tz, devices, store, pending, issued, page>>

\* PATCH of the User collection: findByIdAndUpdate(id, { physician })
AssignPhysician(id, physicianId) ==
  {IF u._id = id THEN [u EXCEPT !.physician = Some(physicianId)] ELSE u : u \in users}

\* PUT /api/users/me/physician
PutMePhysician(in) ==
  \E token \in Bearers, physicianId \in Opt(in.physicianIds) :
    LET op == "PUT /me/physician"
        asked == Request(op, [token |-> token, physicianId |-> physicianId])
    IN  IF ~Authenticated(token) THEN Reject(asked, Reply(op, 401))
        ELSE IF physicianId = Undefined THEN Reject(asked, Reply(op, 400))
        \* Physician.findById: a CastError for a string that is no ObjectId
        ELSE IF physicianId[1] = Malformed THEN Reject(asked, Reply(op, 500))
        ELSE IF physicianId[1] \notin PhysicianIds THEN Reject(asked, Reply(op, 404))
        \* User.findByIdAndUpdate gives null for a physician's id: user.physician throws
        ELSE IF token[1] \notin {u._id : u \in users} THEN Reject(asked, Reply(op, 500))
        ELSE /\ users' = AssignPhysician(token[1], physicianId[1])
             /\ req' = asked
             /\ res' = Answer(op, token[1], [physician |-> physicianId[1]])
             /\ UNCHANGED <<now, tz, devices, store, pending, issued, page>>

----------------------------------------------------------------------------
(* Device routes.  `in` bounds the requests of a run: in.bearers (tokens),   *)
(* in.deviceIds (hardware ids), in.names (device names), in.maxIssued.       *)

\* The :id values of requests: the _id of every device ever created, a
\* well-formed id of no device, a string that is no ObjectId
DeviceParams == {DeviceObjectId(n) : n \in 1..issued} \cup {UnknownId, Malformed}

\* User.findByIdAndUpdate(id, { $push: { devices: deviceId } })
UserPush(id, deviceId) ==
  {IF u._id = id THEN [u EXCEPT !.devices = Append(@, deviceId)] ELSE u : u \in users}

\* User.findByIdAndUpdate(id, { $pull: { devices: deviceId } })
UserPull(id, deviceId) ==
  {IF u._id = id
     THEN [u EXCEPT !.devices = SelectSeq(@, LAMBDA x : x # deviceId)]
     ELSE u : u \in users}

\* DeviceFindOwned without the owner condition
DeviceFindById(id, userId) == {d \in devices : d._id = id}

\* Device.findOne({ _id: id, owner: userId })
DeviceFindOwned(id, userId) == {d \in devices : d._id = id /\ d.owner = userId}

\* A lookup by deviceId that finds nothing
DeviceFindNone(deviceId) == {}

\* Device.findOne({ deviceId })
DeviceFindByDeviceId(deviceId) == {d \in devices : d.deviceId = deviceId}

\* POST /api/devices/register: authenticate, deviceRegistrationRules(),
\* validate, then the handler.  The deviceName of the body is valid.
RegisterDevice(in) ==
  \E token \in in.bearers, deviceId \in Opt(in.deviceIds) :
    LET op == "POST /devices/register"
        asked == Request(op, [token |-> token, deviceId |-> deviceId])
    IN  IF ~Authenticated(token) THEN Reject(asked, Reply(op, 401))
        ELSE IF deviceId = Undefined THEN Reject(asked, Reply(op, 400))
        ELSE IF DeviceFindByDeviceId(deviceId[1]) # {}
          THEN Reject(asked, Reply(op, 400))
        ELSE LET device == [_id |-> DeviceObjectId(issued + 1), deviceId |-> deviceId[1],
                            deviceName |-> "watch", owner |-> token[1],
                            apiKey |-> RandomApiKey(issued + 1), lastConnected |-> now]
             IN  /\ issued < in.maxIssued
                 /\ issued' = issued + 1
                 /\ devices' = devices \cup {device}
                 /\ users' = UserPush(token[1], device._id)
                 /\ req' = asked
                 /\ res' = [Answer(op, token[1], device) EXCEPT !.status = 201]
                 /\ UNCHANGED <<now, tz, store, pending, page>>

\* GET /api/devices/:id
GetDevice(in) ==
  \E token \in in.bearers, id \in DeviceParams :
    LET op == "GET /devices/:id"
        asked == Request(op, [token |-> token, id |-> id])
    IN  IF ~Authenticated(token) THEN Reject(asked, Reply(op, 401))
        \* a CastError for an :id that is no ObjectId
        ELSE IF id = Malformed THEN Reject(asked, Reply(op, 500))
        ELSE IF DeviceFindOwned(id, token[1]) = {} THEN Reject(asked, Reply(op, 404))
        ELSE \E device \in DeviceFindOwned(id, token[1]) :
               Reject(asked, Answer(op, token[1], device))

\* PUT /api/devices/:id; the body's deviceName stands for the fields the
\* handler copies (deviceName, firmwareVersion, isActive)
PutDevice(in) ==
  \E token \in in.bearers, id \in DeviceParams, deviceName \in Opt(in.names) :
    LET op == "PUT /devices/:id"
        asked == Request(op, [token |-> token, id |-> id, deviceName |-> deviceName])
    IN  IF ~Authenticated(token) THEN Reject(asked, Reply(op, 401))
        ELSE IF id = Malformed THEN Reject(asked, Reply(op, 500))
        ELSE IF DeviceFindOwned(id, token[1]) = {} THEN Reject(asked, Reply(op, 404))
        ELSE \E device \in DeviceFindOwned(id, token[1]) :
               LET updated == [device EXCEPT !.deviceName = OrElse(deviceName, @)]
               IN  /\ devices' = (devices \ {device}) \cup {updated}
                   /\ req' = asked
                   /\ res' = Answer(op, token[1], updated)
                   /\ UNCHANGED <<now, tz, users, store, pending, issued, page>>

\* DELETE /:id that removes the device's measurements with it
DeleteDeviceCascade(in) ==
  \E token \in in.bearers, id \in DeviceParams :
    LET op == "DELETE /devices/:id"
        asked == Request(op, [token |-> token, id |-> id])
    IN  /\ Authenticated(token)
        /\ \E device \in DeviceFindOwned(id, token[1]) :
             /\ devices' = devices \ {device}
             /\ users' = UserPull(token[1], device._id)
             /\ store' = Select(store, LAMBDA m : m.deviceId # device._id)
             /\ req' = asked
             /\ res' = Answer(op, token[1], <<>>)
             /\ UNCHANGED <<now, tz, pending, issued, page>>

\* DELETE /api/devices/:id
DeleteDevice(in) ==
  \E token \in in.bearers, id \in DeviceParams :
    LET op == "DELETE /devices/:id"
        asked == Request(op, [token |-> token, id |-> id])
    IN  IF ~Authenticated(token) THEN Reject(asked, Reply(op, 401))
        ELSE IF id = Malformed THEN Reject(asked, Reply(op, 500))
        ELSE IF DeviceFindOwned(id, token[1]) = {} THEN Reject(asked, Reply(op, 404))
        ELSE \E device \in DeviceFindOwned(id, token[1]) :
               /\ devices' = devices \ {device}
               /\ users' = UserPull(token[1], device._id)
               /\ req' = asked
               /\ res' = Answer(op, token[1], <<>>)
               /\ UNCHANGED <<now, tz, store, pending, issued, page>>

\* find({ userId: patientId, timestamp: { $gte: sevenDaysAgo } }): no sort
PatientFind(patientId) ==
  Orderings(Select(store, LAMBDA m : m.userId = patientId /\ addDays(now, -7) <= m.timestamp))

\* summary of the patient summary: heart rate alone
PatientSummary(ms) ==
  IF ms = <<>>
    THEN [avgHeartRate |-> 0, minHeartRate |-> 0, maxHeartRate |-> 0, measurementCount |-> 0]
    ELSE LET hr == HeartRates(ms)
         IN  [avgHeartRate |-> Average(hr), minHeartRate |-> MathMin(hr),
              maxHeartRate |-> MathMax(hr), measurementCount |-> Len(ms)]

\* GetPatientSummary closing with the ingestion handlers' update of lastConnected
GetPatientSummaryTouching(in) ==
  \E token \in Bearers, patientId \in in.patientIds :
    LET op == "GET /patient/:patientId/summary"
    IN  /\ devices' = {[d EXCEPT !.lastConnected = now] : d \in devices}
        /\ req' = Request(op, [token |-> token, patientId |-> patientId])
        /\ res' = Reply(op, 200)
        /\ UNCHANGED <<now, tz, users, store, pending, issued, page>>

\* GET /api/measurements/patient/:patientId/summary
GetPatientSummary(in) ==
  \E token \in Bearers, patientId \in in.patientIds :
    LET op == "GET /patient/:patientId/summary"
        asked == Request(op, [token |-> token, patientId |-> patientId])
    IN  IF ~Authenticated(token) THEN Reject(asked, Reply(op, 401))
        ELSE IF UserType(token) # "physician" THEN Reject(asked, Reply(op, 403))
        \* User.findOne({ _id }): a CastError for a string that is no ObjectId
        ELSE IF patientId = Malformed THEN Reject(asked, Reply(op, 500))
        ELSE IF ~\E u \in users : u._id = patientId /\ u.physician = Some(token[1])
          THEN Reject(asked, Reply(op, 403))
        ELSE \E ms \in PatientFind(patientId) :
               Reject(asked, Answer(op, token[1],
                                    [patient |-> patientId, summary |-> PatientSummary(ms)]))

----------------------------------------------------------------------------
(* Runs *)

Zones == {-MsPerHour, 0, MsPerHour}

Sample(hr, o2) == [heartRate |-> hr, bloodOxygen |-> o2]

\* A batch entry that carries no userId, deviceId or wasOffline of its own
NoTag == [userId |-> Undefined, deviceId |-> Undefined, wasOffline |-> Undefined]

\* Aggregation runs: the server at noon UTC of its start day; devices that
\* report over the device-authenticated route and the batch route, flagging
\* their readings as recorded offline; readings with varied values, taken now
\* or a day before; bodies with a value too low, too high or missing.
AggregationInputs ==
  [samples |-> {Sample(Some(Num(60)), Some(Num(98))),
                Sample(Some(Num(60) + Half), Some(Num(97))),
                Sample(Some(Num(61)), Some(Num(97))),
                Sample(Some(Num(30) - Half), Some(Num(97))),
                Sample(Some(Num(60)), Some(Num(100) + Half)),
                Sample(Undefined, Some(Num(97)))},
   instants |-> {addDays(now, -1)},
   offline |-> {Some(TRUE)},
   tags |-> {NoTag},
   log |-> FALSE,
   cap |-> MaxStore]

Init ==
  /\ tz \in Zones
  /\ now = StartDay * MsPerDay + 12 * MsPerHour
  /\ devices = InitDevices
  /\ users = InitUsers
  /\ store = EmptyBag
  /\ pending = {}
  /\ issued = Cardinality(InitDevices)
  /\ page = InitPage
  /\ req = Request("none", <<>>)
  /\ res = Reply("none", 0)

Next ==
  \/ PostMeasurement(AggregationInputs)
  \/ PostBatch(AggregationInputs)
  \/ GetSummaryDaily
  \/ GetSummaryWeekly
  \/ GetSummaryMonthly

Spec == Init /\ [][Next]_vars

\* Window runs: the server half an hour after, or half an hour before, a local
\* midnight; devices that report over the webhook and the device-authenticated
\* route; readings stamped at the local midnights around now, three days back,
\* or now.
WindowInputs ==
  [samples |-> {Sample(Some(Num(60)), Some(Num(97))),
                Sample(Some(Num(61)), Some(Num(97))),
                Sample(Some(Num(250) + Half), Some(Num(97))),
                Sample(Some(Num(60)), Undefined)},
   instants |-> {addDays(Today, -3), Today, Tomorrow},
   offline |-> {Undefined},
   dates |-> {StartDay - 1, StartDay, StartDay + 1},
   log |-> FALSE,
   cap |-> MaxWindowStore]

InitWindow ==
  /\ tz \in Zones
  /\ now \in {StartDay * MsPerDay - tz + 30 * 60 * 1000,
              StartDay * MsPerDay - tz + MsPerDay - 30 * 60 * 1000}
  /\ devices = InitDevices
  /\ users = InitUsers
  /\ store = EmptyBag
  /\ pending = {}
  /\ issued = Cardinality(InitDevices)
  /\ page = InitPage
  /\ req = Request("none", <<>>)
  /\ res = Reply("none", 0)

NextWindow ==
  \/ PostWebhook(WindowInputs)
  \/ PostMeasurement(WindowInputs)
  \/ GetSummaryDaily
  \/ GetSummaryWeekly
  \/ GetSummaryMonthly
  \/ GetChartWeekly
  \/ GetDailyDate(WindowInputs)

SpecWindow == InitWindow /\ [][NextWindow]_vars

\* Boundary runs: the server at noon UTC of its start day; devices that report
\* over the device-authenticated route readings stamped at the first and last
\* millisecond of the weekly and monthly windows, one millisecond before the
\* first, one millisecond after the last, or now.
BoundaryInputs ==
  [samples |-> {Sample(Some(Num(60)), Some(Num(97)))},
   instants |-> {EndDate, EndDate + 1, SevenDaysAgo, SevenDaysAgo - 1,
                 ThirtyDaysAgo, ThirtyDaysAgo - 1},
   offline |-> {Undefined},
   log |-> FALSE,
   cap |-> MaxBoundaryStore]

NextBoundary ==
  \/ PostMeasurement(BoundaryInputs)
  \/ GetSummaryWeekly
  \/ GetSummaryMonthly

SpecBoundary == Init /\ [][NextBoundary]_vars

\* A batch entry that carries another user's id, another device's id and
\* wasOffline false
ForeignTag == [userId |-> Some("u2"), deviceId |-> Some("d2"), wasOffline |-> Some(FALSE)]

\* Ingestion runs: devices that report over all three routes, without a
\* timestamp, a reading in range whose heart rate is no integer, values just
\* below or above the ranges, or missing; the requests are kept.
IngestInputs ==
  [samples |-> {Sample(Some(Num(60) + Half), Some(Num(97))),
                Sample(Some(Num(30) - Half), Some(Num(97))),
                Sample(Some(Num(60)), Some(Num(100) + Half)),
                Sample(Undefined, Some(Num(97)))},
   instants |-> {},
   offline |-> {Undefined},
   tags |-> {NoTag, ForeignTag},
   log |-> TRUE,
   cap |-> MaxIngestStore]

NextIngest ==
  \/ PostWebhook(IngestInputs)
  \/ PostMeasurement(IngestInputs)
  \/ PostBatch(IngestInputs)

SpecIngest == Init /\ [][NextIngest]_vars

\* Physician runs: users who assign and reassign a physician (a registered
\* one, none, an unknown id, a string that is no id), physicians who ask for
\* the summary of a user, of an unknown id or of a string that is no id;
\* devices that report readings taken now or eight days ago; the summaries and
\* the chart.
CareInputs ==
  [samples |-> {Sample(Some(Num(60)), Some(Num(97)))},
   instants |-> {addDays(now, -8)},
   offline |-> {Undefined},
   physicianIds |-> PhysicianIds \cup {UnknownId, Malformed},
   patientIds |-> UserIds \cup {UnknownId, Malformed},
   log |-> FALSE,
   cap |-> MaxCareStore]

NextCare ==
  \/ PostMeasurement(CareInputs)
  \/ PutMePhysician(CareInputs)
  \/ GetPatientSummary(CareInputs)
  \/ GetSummaryDaily
  \/ GetSummaryWeekly
  \/ GetSummaryMonthly
  \/ GetChartWeekly

SpecCare == Init /\ [][NextCare]_vars

\* The server in UTC
InitUTC == Init /\ tz = 0

\* Device runs: users register, read, rename and remove devices; the
\* hardware ids are those of the two devices registered at start and one more.
MaxIssued == 4

DeviceInputs ==
  [bearers |-> Tokens,
   deviceIds |-> {"hw1", "hw2", "hw3"},
   names |-> {"band"},
   maxIssued |-> MaxIssued]

NextDevices ==
  \/ RegisterDevice(DeviceInputs)
  \/ GetDevice(DeviceInputs)
  \/ PutDevice(DeviceInputs)
  \/ DeleteDevice(DeviceInputs)

SpecDevices == InitUTC /\ [][NextDevices]_vars

\* Removal runs: users remove their devices, and register them again, while
\* devices report over the three routes, with keys of removed devices too;
\* users read their weekly summaries; the requests are kept.
MaxRemovalIssued == 3

MaxRemovalStore == 2

RemovalInputs ==
  [samples |-> {Sample(Some(Num(60)), Some(Num(97)))},
   instants |-> {},
   offline |-> {Undefined},
   tags |-> {NoTag},
   log |-> TRUE,
   cap |-> MaxRemovalStore,
   bearers |-> Tokens,
   deviceIds |-> {"hw1"},
   names |-> {},
   maxIssued |-> MaxRemovalIssued]

NextRemoval ==
  \/ RegisterDevice(RemovalInputs)
  \/ DeleteDevice(RemovalInputs)
  \/ PostWebhook(RemovalInputs)
  \/ PostMeasurement(RemovalInputs)
  \/ PostBatch(RemovalInputs)
  \/ GetSummaryWeekly

SpecRemoval == InitUTC /\ [][NextRemoval]_vars

\* Profile runs: users and physicians send profile updates, with bodies that
\* name the protected paths or the physician, and assign physicians.
ProfileInputs ==
  [bearers |-> Bearers,
   bodies |-> {[fullName |-> "renamed"],
               [email |-> "other@example.com", password |-> "plain", _id |-> "u2",
                fullName |-> "renamed"],
               [physician |-> "p1"],
               [physician |-> UnknownId],
               [physician |-> Malformed]},
   physicianIds |-> PhysicianIds \cup {UnknownId, Malformed}]

NextProfile ==
  \/ PutMe(ProfileInputs)
  \/ PutMePhysician(ProfileInputs)

SpecProfile == InitUTC /\ [][NextProfile]_vars

\* Devices-list runs: users register and remove devices and send profile
\* updates, with bodies that name the devices list.
MaxListIssued == 3

ListInputs ==
  [bearers |-> Tokens,
   bodies |-> {[fullName |-> "renamed"],
               [devices |-> <<>>],
               [devices |-> <<DeviceObjectId(2)>>]},
   deviceIds |-> {"hw1", "hw3"},
   maxIssued |-> MaxListIssued]

NextList ==
  \/ PutMe(ListInputs)
  \/ RegisterDevice(ListInputs)
  \/ DeleteDevice(ListInputs)

SpecList == InitUTC /\ [][NextList]_vars

\* Chat runs: one page, its user and the answers to its requests
NextChat ==
  \/ TypeText
  \/ Submit
  \/ Keypress
  \/ Click
  \/ Complete

SpecChat == InitUTC /\ [][NextChat]_vars

\* Concurrent runs: the weekly handler has one await, on Measurement.find.
\* Other requests are served between the query and the rest of the handler,
\* which works on the array the query returned.
MaxPending == 1

MaxRaceStore == 3

RaceInputs ==
  [samples |-> {Sample(Some(Num(60)), Some(Num(97))),
                Sample(Some(Num(63)), Some(Num(98)))},
   instants |-> {addDays(now, -1)},
   offline |-> {Undefined},
   log |-> FALSE,
   cap |-> MaxRaceStore]

\* GET /api/measurements/summary/weekly up to its await: authenticate, the two
\* window ends, the query
GetSummaryWeeklyFind ==
  \E token \in Tokens :
    LET op == "GET /summary/weekly"
        asked == Request(op, [token |-> token])
    IN  IF ~Authenticated(token) THEN Reject(asked, Reply(op, 401))
        ELSE /\ Cardinality(pending) < MaxPending
             /\ \E ms \in WeeklyFind(token[1]) :
                  pending' = pending \cup {[userId |-> token[1], measurements |-> ms]}
             /\ UNCHANGED <<now, tz, devices, users, store, issued, req, res, page>>

\* GET /api/measurements/summary/weekly after its await: the summary of the
\* returned array
GetSummaryWeeklyRespond ==
  \E call \in pending :
    LET op == "GET /summary/weekly"
    IN  /\ pending' = pending \ {call}
        /\ req' = Request(op, [token |-> Some(call.userId)])
        /\ res' = Answer(op, call.userId, WeeklySummary(call.measurements))
        /\ UNCHANGED <<now, tz, devices, users, store, issued, page>>

NextRace ==
  \/ PostMeasurement(RaceInputs)
  \/ GetSummaryWeeklyFind
  \/ GetSummaryWeeklyRespond

SpecRace == Init /\ [][NextRace]_vars

----------------------------------------------------------------------------
(* What the claims speak of, stated from the collection and the clock alone *)

SummaryOps == {"GET /summary/daily", "GET /summary/weekly", "GET /summary/monthly"}

\* The calendar day of an instant in the server's zone, and in UTC
LocalDay(t) == (t + tz) \div MsPerDay

UTCDay(t) == t \div MsPerDay

\* The stored readings of a user
ReadingsOf(userId) == Select(store, LAMBDA m : m.userId = userId)

\* How many calendar days before today a summary reaches back
DaysBack(op) ==
  CASE op = "GET /summary/daily" -> 0
    [] op = "GET /summary/weekly" -> 7
    [] op = "GET /summary/monthly" -> 30

\* The readings of a user in the window of a summary: from 00:00:00.000 of the
\* first day to the last millisecond of today, server time
WindowOf(op, userId) ==
  Select(store, LAMBDA m :
    /\ m.userId = userId
    /\ LocalDay(now) - DaysBack(op) <= LocalDay(m.timestamp)
    /\ LocalDay(m.timestamp) <= LocalDay(now))

\* The readings of a bag whose UTC date is a given "YYYY-MM-DD"
OnDate(bag, date) == Select(bag, LAMBDA m : toISODate(UTCDay(m.timestamp) * MsPerDay) = date)

IsEmpty(bag) == BagToSet(bag) = {}

Abs(x) == IF x < 0 THEN -x ELSE x

\* The sum of the values a field takes in a bag, each counted as often as it occurs
RECURSIVE Weighted(_, _)
Weighted(values, times) ==
  IF values = {} THEN 0
  ELSE LET v == CHOOSE x \in values : TRUE
       IN  v * times[v] + Weighted(values \ {v}, times)

HeartRateValues(bag) == {m.heartRate : m \in BagToSet(bag)}

BloodOxygenValues(bag) == {m.bloodOxygen : m \in BagToSet(bag)}

HeartRateTotal(bag) ==
  Weighted(HeartRateValues(bag),
           [v \in HeartRateValues(bag) |->
              BagCardinality(Select(bag, LAMBDA m : m.heartRate = v))])

BloodOxygenTotal(bag) ==
  Weighted(BloodOxygenValues(bag),
           [v \in BloodOxygenValues(bag) |->
              BagCardinality(Select(bag, LAMBDA m : m.bloodOxygen = v))])

Least(S) == CHOOSE x \in S : \A y \in S : x <= y

Greatest(S) == CHOOSE x \in S : \A y \in S : x >= y

\* r is total/count rounded to the nearest integer, a half going away from zero
IsRoundedMean(r, total, count) ==
  /\ IsInteger(r)
  /\ 2 * Abs(r * count - total) <= count * Scale
  /\ 2 * Abs(r * count - total) = count * Scale => Abs(r * count) > Abs(total)

\* s holds the count, the rounded means and the exact extremes of a non-empty bag
DescribesBag(s, bag) ==
  /\ s.measurementCount = BagCardinality(bag)
  /\ IsRoundedMean(s.avgHeartRate, HeartRateTotal(bag), BagCardinality(bag))
  /\ IsRoundedMean(s.avgBloodOxygen, BloodOxygenTotal(bag), BagCardinality(bag))
  /\ s.minHeartRate = Least(HeartRateValues(bag))
  /\ s.maxHeartRate = Greatest(HeartRateValues(bag))
  /\ s.minBloodOxygen = Least(BloodOxygenValues(bag))
  /\ s.maxBloodOxygen = Greatest(BloodOxygenValues(bag))

IsSummary == res.op \in SummaryOps /\ res.status = 200

IsWeekly == res.op = "GET /summary/weekly" /\ res.status = 200

IsChart == res.op = "GET /chart/weekly" /\ res.status = 200

----------------------------------------------------------------------------
(* C1 *)

\* C1: when no reading of the caller falls in the window of a daily, weekly or
\* monthly summary, the answer is a success whose six avg/min/max fields are 0
\* and whose measurementCount is 0, and the weekly dailyBreakdown is empty.
C1_EmptyWindowZeroSummary ==
  (res.op \in SummaryOps /\ res.status # 401 /\ IsEmpty(WindowOf(res.op, res.userId)))
    => /\ res.status = 200
       /\ res.body.avgHeartRate = 0 /\ res.body.minHeartRate = 0
       /\ res.body.maxHeartRate = 0
       /\ res.body.avgBloodOxygen = 0 /\ res.body.minBloodOxygen = 0
       /\ res.body.maxBloodOxygen = 0
       /\ res.body.measurementCount = 0
       /\ res.op = "GET /summary/weekly" => res.body.dailyBreakdown = <<>>

\* A weekly summary of a caller whose only reading lies after the window, while
\* another user has a reading inside it
C1_Witness ==
  /\ IsWeekly
  /\ IsEmpty(WindowOf(res.op, res.userId))
  /\ ~IsEmpty(ReadingsOf(res.userId))
  /\ \E m \in BagToSet(store) :
       m.userId # res.userId /\ LocalDay(m.timestamp) = LocalDay(now)
  /\ res.body.measurementCount = 0

----------------------------------------------------------------------------
(* C2 *)

MinAvgMax(s) ==
  /\ s.minHeartRate <= s.avgHeartRate /\ s.avgHeartRate <= s.maxHeartRate
  /\ s.minBloodOxygen <= s.avgBloodOxygen /\ s.avgBloodOxygen <= s.maxBloodOxygen

\* C2: in every summary over a non-empty set of readings, and in every entry
\* of its dailyBreakdown, min <= avg <= max for heartRate and for bloodOxygen.
C2_MinAvgMax ==
  (IsSummary /\ res.body.measurementCount > 0)
    => /\ MinAvgMax(res.body)
       /\ res.op = "GET /summary/weekly" =>
            \A i \in 1..Len(res.body.dailyBreakdown) : MinAvgMax(res.body.dailyBreakdown[i])

----------------------------------------------------------------------------
(* C3 *)

\* C3: a summary over a non-empty set of readings gives sum/count rounded to
\* the nearest integer, halves away from zero, as avgHeartRate and
\* avgBloodOxygen, the exact least and greatest values as min and max, and the
\* number of readings as measurementCount.
C3_RoundedMeanExactExtremes ==
  (IsSummary /\ ~IsEmpty(WindowOf(res.op, res.userId)))
    => DescribesBag(res.body, WindowOf(res.op, res.userId))

\* A monthly summary of two readings whose heart rates average to a half
C3_Witness ==
  /\ res.op = "GET /summary/monthly" /\ res.status = 200
  /\ BagCardinality(WindowOf(res.op, res.userId)) = 2
  /\ HeartRateTotal(WindowOf(res.op, res.userId)) = Num(60) + Num(61)
  /\ res.body.avgHeartRate = Num(61)

----------------------------------------------------------------------------
(* C4 *)

\* The readings the query of a summary matches, and the summary of an array
Matched(op, userId) ==
  CASE op = "GET /summary/daily" -> InHalfOpen(userId, Today, Tomorrow)
    [] op = "GET /summary/weekly" -> InClosed(userId, SevenDaysAgo, EndDate)
    [] op = "GET /summary/monthly" -> InClosed(userId, ThirtyDaysAgo, EndDate)

SummaryBody(op, ms) ==
  CASE op = "GET /summary/daily" -> DailySummary(ms)
    [] op = "GET /summary/weekly" -> WeeklySummary(ms)
    [] op = "GET /summary/monthly" -> MonthlySummary(ms)

----------------------------------------------------------------------------
(* C5 *)

\* The "YYYY-MM-DD" of a calendar day, given as its count of days after time 0
DateOfDay(day) == toISODate(day * MsPerDay)

\* C5: the dailyBreakdown of the weekly summary lists the UTC dates of the
\* aggregated readings, each once and no other, the earlier date first.
C5_BreakdownDatesAscending ==
  IsWeekly =>
    LET days == {UTCDay(m.timestamp) : m \in BagToSet(WindowOf(res.op, res.userId))}
        list == res.body.dailyBreakdown
    IN  /\ Len(list) = Cardinality(days)
        /\ \A i \in 1..Len(list) :
             \E d \in days : /\ list[i].date = DateOfDay(d)
                             /\ Cardinality({e \in days : e < d}) = i - 1

\* A weekly summary whose breakdown has a date of one year, then a date of the next
C5_Witness ==
  /\ IsWeekly
  /\ Len(res.body.dailyBreakdown) = 2
  /\ SubSeq(res.body.dailyBreakdown[1].date, 1, 4)
       # SubSeq(res.body.dailyBreakdown[2].date, 1, 4)

----------------------------------------------------------------------------
(* C6 *)

\* C6: each dailyBreakdown entry holds the count, rounded means and extremes of
\* the aggregated readings of its own date, and of no other reading.
C6_BreakdownEntryOfItsDate ==
  IsWeekly =>
    \A i \in 1..Len(res.body.dailyBreakdown) :
      LET entry == res.body.dailyBreakdown[i]
          own == OnDate(WindowOf(res.op, res.userId), entry.date)
      IN  ~IsEmpty(own) /\ DescribesBag(entry, own)

\* A weekly summary with two readings on one date and one, of another heart
\* rate, on the next
C6_Witness ==
  /\ IsWeekly
  /\ Len(res.body.dailyBreakdown) = 2
  /\ res.body.dailyBreakdown[1].measurementCount = 2
  /\ res.body.dailyBreakdown[2].measurementCount = 1
  /\ res.body.dailyBreakdown[1].maxHeartRate < res.body.dailyBreakdown[2].minHeartRate

----------------------------------------------------------------------------
(* C7 *)

\* C7: the weekly chart has exactly 7 entries in dates, in heartRate and in
\* bloodOxygen.
C7_ChartHasSevenEntries ==
  IsChart => /\ Len(res.body.dates) = 7
             /\ Len(res.body.heartRate) = 7
             /\ Len(res.body.bloodOxygen) = 7

\* A chart for a caller without a reading, while another user has two
C7_Witness ==
  /\ IsChart
  /\ IsEmpty(ReadingsOf(res.userId))
  /\ BagCardinality(store) = 2
  /\ \A p \in 1..Len(res.body.heartRate) : res.body.heartRate[p] = Undefined

----------------------------------------------------------------------------
(* C8 *)

\* C8: the chart's labels are the calendar days from six days before today to
\* today, oldest first, and the last one is the date under which a reading
\* taken now is bucketed.
C8_LabelsEndToday ==
  IsChart =>
    LET dates == res.body.dates
    IN  /\ \A p \in 1..Len(dates) : dates[p] = DateOfDay(LocalDay(now) - (Len(dates) - p))
        /\ dates[Len(dates)] = toISODate(now)

----------------------------------------------------------------------------
(* C9 *)

\* C9: at each position of the chart, heartRate and bloodOxygen hold the rounded
\* means of the caller's readings of that position's date when there are any,
\* and null when there are none.
C9_ChartGapFill ==
  IsChart =>
    \A p \in 1..Len(res.body.dates) :
      LET own == OnDate(ReadingsOf(res.userId), res.body.dates[p])
          hr == res.body.heartRate[p]
          o2 == res.body.bloodOxygen[p]
      IN  IF IsEmpty(own) THEN hr = Undefined /\ o2 = Undefined
          ELSE /\ Len(hr) = 1 /\ Len(o2) = 1
               /\ IsRoundedMean(hr[1], HeartRateTotal(own), BagCardinality(own))
               /\ IsRoundedMean(o2[1], BloodOxygenTotal(own), BagCardinality(own))

\* A chart with readings on two days, three days apart: two numbers, five nulls
C9_Witness ==
  /\ IsChart
  /\ \E p \in 1..4 : /\ res.body.heartRate[p] # Undefined
                     /\ res.body.heartRate[p + 3] # Undefined
                     /\ \A q \in 1..7 : q \notin {p, p + 3} =>
                          res.body.heartRate[q] = Undefined /\ res.body.bloodOxygen[q] = Undefined

----------------------------------------------------------------------------
(* C10 *)

\* C10: the daily summary counts the caller's readings of today's calendar day,
\* and the listing of a date returns the caller's readings of that UTC day: a
\* reading stamped at a midnight belongs to the day that starts there and to no
\* other.
C10_HalfOpenDayWindows ==
  /\ (res.op = "GET /summary/daily" /\ res.status = 200) =>
       res.body.measurementCount =
         BagCardinality(Select(ReadingsOf(res.userId),
                               LAMBDA m : LocalDay(m.timestamp) = LocalDay(now)))
  /\ (res.op = "GET /daily/:date" /\ res.status = 200) =>
       /\ BagOfSeq(res.body.measurements) =
            Select(ReadingsOf(res.userId), LAMBDA m : UTCDay(m.timestamp) = res.body.date)
       /\ res.body.count = Len(res.body.measurements)

\* A listing of a date for a caller with a reading at that date's midnight and
\* one at the next midnight: the first is returned, the second is not
C10_Witness ==
  /\ res.op = "GET /daily/:date" /\ res.status = 200
  /\ \E m \in BagToSet(ReadingsOf(res.userId)) : m.timestamp = res.body.date * MsPerDay
  /\ \E m \in BagToSet(ReadingsOf(res.userId)) : m.timestamp = (res.body.date + 1) * MsPerDay
  /\ res.body.count = 1
  /\ res.body.measurements[1].timestamp = res.body.date * MsPerDay

----------------------------------------------------------------------------
(* C11 *)

\* The instant at which a calendar day starts in the server's zone
StartOfLocalDay(day) == day * MsPerDay - tz

\* C11: a weekly or monthly summary counts exactly the caller's readings stamped
\* from 00:00:00.000 of the day 7, respectively 30, days before today up to
\* 23:59:59.999 of today, both ends included: not the one a millisecond
\* earlier, not the one at the following 00:00:00.000.
C11_WeeklyMonthlyBoundaries ==
  (res.op \in {"GET /summary/weekly", "GET /summary/monthly"} /\ res.status = 200) =>
    LET first == StartOfLocalDay(LocalDay(now) - DaysBack(res.op))
        last == StartOfLocalDay(LocalDay(now) + 1) - 1
    IN  res.body.measurementCount =
          BagCardinality(Select(ReadingsOf(res.userId),
                                LAMBDA m : first <= m.timestamp /\ m.timestamp <= last))

\* A weekly summary that counts 1 for a caller with a reading at today
\* 23:59:59.999, one at the following 00:00:00.000 and one a millisecond
\* before the window starts
C11_Witness ==
  /\ IsWeekly
  /\ res.body.measurementCount = 1
  /\ \E m \in BagToSet(ReadingsOf(res.userId)) :
       m.timestamp = StartOfLocalDay(LocalDay(now) + 1) - 1
  /\ \E m \in BagToSet(ReadingsOf(res.userId)) :
       m.timestamp = StartOfLocalDay(LocalDay(now) + 1)
  /\ \E m \in BagToSet(ReadingsOf(res.userId)) :
       m.timestamp = StartOfLocalDay(LocalDay(now) - 7) - 1

----------------------------------------------------------------------------
(* C12 *)

\* The <<heartRate, bloodOxygen>> pairs an ingestion request carries, each
\* value <<v>> or <<>> when it is missing
ValuesSent(r) ==
  IF r.op = "POST / webhook" /\ "heart_rate" \in DOMAIN r.sent
    THEN {<<r.sent.heart_rate, r.sent.spo2>>}
  ELSE IF r.op = "POST /" /\ "heartRate" \in DOMAIN r.sent
    THEN {<<r.sent.heartRate, r.sent.bloodOxygen>>}
  ELSE IF r.op = "POST /batch" /\ "measurements" \in DOMAIN r.sent
                              /\ r.sent.measurements # Undefined
    THEN {<<r.sent.measurements[1][i].heartRate, r.sent.measurements[1][i].bloodOxygen>> :
            i \in 1..Len(r.sent.measurements[1])}
  ELSE {}

OutOf(v, low, high) == v = Undefined \/ v[1] < Num(low) \/ v[1] > Num(high)

BadPair(pair) == OutOf(pair[1], 30, 250) \/ OutOf(pair[2], 70, 100)

\* C12: every stored reading has heartRate within 30..250 and bloodOxygen
\* within 70..100, and a request that carries a missing or out-of-range value
\* leaves the collection as it was.
C12_StoredInRange ==
  /\ [](\A m \in BagToSet(store) :
          /\ Num(30) <= m.heartRate /\ m.heartRate <= Num(250)
          /\ Num(70) <= m.bloodOxygen /\ m.bloodOxygen <= Num(100))
  /\ [][(\E pair \in ValuesSent(req') : BadPair(pair)) => store' = store]_vars

\* A batch of one entry in range and one out of range, answered 500 while the
\* collection holds an earlier reading
C12_Witness ==
  /\ req.op = "POST /batch" /\ res.status = 500
  /\ \E pair \in ValuesSent(req) : BadPair(pair)
  /\ \E pair \in ValuesSent(req) : ~BadPair(pair)
  /\ BagCardinality(store) = 1

----------------------------------------------------------------------------
(* C13 *)

\* C13: every stored reading's heartRate and bloodOxygen are integers.
C13_StoredIntegers ==
  \A m \in BagToSet(store) : IsInteger(m.heartRate) /\ IsInteger(m.bloodOxygen)

----------------------------------------------------------------------------
(* C14 *)

IsPatientSummary == res.op = "GET /patient/:patientId/summary"

\* The patient of the request answered last is assigned to its caller
AssignedToCaller ==
  \E u \in users : /\ u._id = req.sent.patientId
                    /\ u.physician = Some(req.sent.token[1])

\* C14: a physician's request for a patient's summary is answered with the
\* summary only when that patient's assigned physician is, at that time, the
\* caller; otherwise the answer is 403 and carries no summary.
C14_OnlyAssignedElse403 ==
  (IsPatientSummary /\ res.status # 401 /\ UserType(req.sent.token) = "physician") =>
    /\ res.status = 200 => AssignedToCaller
    /\ ~AssignedToCaller => res.status = 403 /\ res.body = <<>>

----------------------------------------------------------------------------
(* C15 *)

\* The caller's own readings that lie in the time window of a summary or of
\* the chart: the other users' readings are not looked at
OwnInWindow(op, userId) ==
  Select(ReadingsOf(userId), LAMBDA m :
    CASE op = "GET /summary/daily" -> Today <= m.timestamp /\ m.timestamp < Tomorrow
      [] op = "GET /summary/monthly" -> ThirtyDaysAgo <= m.timestamp /\ m.timestamp <= EndDate
      [] OTHER -> SevenDaysAgo <= m.timestamp /\ m.timestamp <= EndDate)

\* What a summary or the chart answers for an array of readings
BodyFor(op, ms) == IF op = "GET /chart/weekly" THEN WeeklyChart(ms) ELSE SummaryBody(op, ms)

\* C15: a summary or chart answered to a user is the one computed from that
\* user's readings alone, in whatever order: it is the same whatever readings
\* the other users have.
C15_OwnReadingsOnly ==
  (IsSummary \/ IsChart) =>
    \A ms \in Orderings(OwnInWindow(res.op, res.userId)) : res.body = BodyFor(res.op, ms)

\* A daily summary of one reading of the caller, answered while another user
\* has a reading of another heart rate in the same window
C15_Witness ==
  /\ res.op = "GET /summary/daily" /\ res.status = 200
  /\ res.body.measurementCount = 1
  /\ \E m \in BagToSet(store) :
       /\ m.userId # res.userId
       /\ Today <= m.timestamp /\ m.timestamp < Tomorrow
       /\ m.heartRate # res.body.minHeartRate

----------------------------------------------------------------------------
(* C16 *)

ReadOps ==
  SummaryOps \cup {"GET /chart/weekly", "GET /patient/:patientId/summary"}

\* C16: a step that answers a daily, weekly or monthly summary, the weekly
\* chart or a physician's patient summary leaves the Measurement, Device and
\* User collections as they were.
C16_ReadsChangeNothing ==
  [][req'.op \in ReadOps => store' = store /\ devices' = devices /\ users' = users]_vars

\* A patient summary over a reading, answered to the assigned physician
C16_Witness ==
  /\ IsPatientSummary /\ res.status = 200
  /\ res.body.summary.measurementCount > 0
  /\ AssignedToCaller

----------------------------------------------------------------------------
(* C17 *)

\* The documents a step adds to the Measurement collection
Added == store' (-) store

\* The registered device whose API key a request presents
Presenting(r) == {d \in devices : Some(d.apiKey) = r.sent.api_key}

\* C17: every reading a POST /batch step stores has wasOffline = true and the
\* userId and _id of the device whose API key was presented, whatever the
\* entries carry, one document per entry; a payload that is no array or an
\* empty one is answered 400 and stores nothing.
C17_BatchAcceptAndTag ==
  [][(req'.op = "POST /batch" /\ "measurements" \in DOMAIN req'.sent) =>
       IF req'.sent.measurements = Undefined \/ req'.sent.measurements = Some(<<>>)
         THEN res'.status = 400 /\ store' = store
         ELSE store' # store =>
                /\ BagCardinality(Added) = Len(req'.sent.measurements[1])
                /\ \A m \in BagToSet(Added) :
                     /\ m.wasOffline = TRUE
                     /\ \E d \in Presenting(req') :
                          m.userId = d.owner /\ m.deviceId = d._id]_vars

\* A batch sent with the key of u1's device, whose entry carries u2's id,
\* d2's id and wasOffline false, answered 201 and stored for u1 and d1
C17_Witness ==
  /\ req.op = "POST /batch" /\ res.status = 201
  /\ req.sent.api_key = Some("k1")
  /\ \E i \in 1..Len(req.sent.measurements[1]) :
       /\ req.sent.measurements[1][i].userId = Some("u2")
       /\ req.sent.measurements[1][i].wasOffline = Some(FALSE)
  /\ \A m \in BagToSet(store) : m.userId = "u1" /\ m.deviceId = "d1" /\ m.wasOffline

----------------------------------------------------------------------------
(* C20 *)

----------------------------------------------------------------------------
(* C18 *)

\* C18: a request for the listing of a date string that cannot be parsed is
\* rejected as a bad request, with a client-error status, and answers no
\* readings.
C18_UnparseableDateRejected ==
  (res.op = "GET /daily/:date" /\ res.status # 401 /\ req.sent.date = Undefined) =>
    res.status \in 400..499 /\ res.body = <<>>

----------------------------------------------------------------------------
(* C19 *)

BreakdownCounts(body) ==
  [i \in 1..Len(body.dailyBreakdown) |-> body.dailyBreakdown[i].measurementCount]

BreakdownDates(body) ==
  {body.dailyBreakdown[i].date : i \in 1..Len(body.dailyBreakdown)}

\* body is the weekly summary of the readings in bag: the totals and every
\* breakdown entry describe that one bag, and every date of the bag has an entry
SummaryOfOneBag(body, bag) ==
  /\ IF IsEmpty(bag)
       THEN body.measurementCount = 0 /\ body.dailyBreakdown = <<>>
       ELSE DescribesBag(body, bag)
  /\ \A i \in 1..Len(body.dailyBreakdown) :
       LET entry == body.dailyBreakdown[i]
       IN  ~IsEmpty(OnDate(bag, entry.date)) /\ DescribesBag(entry, OnDate(bag, entry.date))
  /\ \A m \in BagToSet(bag) :
       toISODate(UTCDay(m.timestamp) * MsPerDay) \in BreakdownDates(body)

\* C19: a weekly summary answered while readings are being inserted is the
\* summary of one snapshot: its measurementCount is the sum of the counts of
\* its dailyBreakdown, and its totals and its breakdown describe the same
\* readings of the caller.
C19_WeeklyOneSnapshot ==
  IsWeekly =>
    /\ res.body.measurementCount = Sum(BreakdownCounts(res.body))
    /\ \E snapshot \in SubBag(WindowOf(res.op, res.userId)) :
         SummaryOfOneBag(res.body, snapshot)

\* A weekly summary of at least one reading, answered after another reading of
\* the caller in the window was stored between its query and its response
C19_Witness ==
  /\ IsWeekly
  /\ res.body.measurementCount >= 1
  /\ res.body.measurementCount < BagCardinality(WindowOf(res.op, res.userId))

----------------------------------------------------------------------------
(* C21 *)

IngestOps == {"POST / webhook", "POST /", "POST /batch"}

\* The request presents no api_key, or one that is no registered device's
NoDeviceFor(r) ==
  \/ r.sent.api_key = Undefined
  \/ \A d \in devices : d.apiKey # r.sent.api_key[1]

----------------------------------------------------------------------------
(* C22 *)

\* The keys of the devices that were removed: given to a device once, and no
\* existing device's
RemovedKeys ==
  {RandomApiKey(n) : n \in 1..issued} \ {d.apiKey : d \in devices}

PresentsRemovedKey(r) ==
  /\ r.op \in IngestOps
  /\ "api_key" \in DOMAIN r.sent
  /\ r.sent.api_key # Undefined
  /\ r.sent.api_key[1] \in RemovedKeys

\* C22: after DELETE /api/devices/:id every measurement request with the
\* removed device's key answers 401 and stores nothing; the removal leaves
\* the stored measurements as they are, and the owner's weekly summary goes
\* on counting them.
C22_RemovedDeviceRejected ==
  /\ [](IsWeekly =>
         res.body.measurementCount = BagCardinality(WindowOf(res.op, res.userId)))
  /\ [][(PresentsRemovedKey(req') => (res'.status = 401 /\ store' = store))
         /\ (req'.op = "DELETE /devices/:id" => store' = store)]_vars

\* A request with the key of a removed device, answered 401 while a reading
\* that device recorded is stored
C22_Witness ==
  /\ PresentsRemovedKey(req)
  /\ res.status = 401
  /\ \E m \in BagToSet(store) : \A d \in devices : d._id # m.deviceId

\* A weekly summary that counts a reading of a removed device
C22_SummaryWitness ==
  /\ IsWeekly
  /\ res.body.measurementCount >= 1
  /\ \A m \in BagToSet(store) : \A d \in devices : d._id # m.deviceId

----------------------------------------------------------------------------
(* C23 *)

DeviceOps == {"GET /devices/:id", "PUT /devices/:id", "DELETE /devices/:id"}

\* The request, of an authenticated caller, names an existing device of
\* another owner
NamesForeignDevice(r) ==
  /\ r.op \in DeviceOps
  /\ Authenticated(r.sent.token)
  /\ \E d \in devices : d._id = r.sent.id /\ d.owner # r.sent.token[1]

\* C23: GET, PUT and DELETE /api/devices/:id naming a device of another user
\* answer 404 and leave the Device collection and every user's devices list
\* unchanged; a device these routes change or remove is owned by the caller.
C23_OwnDevicesOnly ==
  [][/\ NamesForeignDevice(req') =>
          (res'.status = 404 /\ devices' = devices
             /\ users' = users)
     /\ req'.op \in DeviceOps =>
          \A d \in devices \ devices' : d.owner = req'.sent.token[1]]_vars

\* User u1 asked to delete the device of u2, which still exists
C23_Witness ==
  /\ req.op = "DELETE /devices/:id"
  /\ req.sent.token = Some("u1")
  /\ \E d \in devices : d._id = req.sent.id /\ d.owner = "u2"
  /\ res.status = 404

----------------------------------------------------------------------------
(* C24 *)

\* The request registers a deviceId that a device already has
RegistersAgain(r) ==
  /\ r.op = "POST /devices/register"
  /\ Authenticated(r.sent.token)
  /\ r.sent.deviceId # Undefined
  /\ \E d \in devices : d.deviceId = r.sent.deviceId[1]

\* C24: no two devices share a deviceId or an apiKey; registering a deviceId
\* that is registered already, by whichever user, answers 400, creates no
\* device and leaves every user's devices list as it is.
C24_UniqueDevices ==
  /\ [](\A a, b \in devices :
          (a.deviceId = b.deviceId \/ a.apiKey = b.apiKey) => a = b)
  /\ [][RegistersAgain(req') =>
          (res'.status = 400 /\ devices' = devices /\ users' = users)]_vars

\* User u2 asked to register the hardware that u1 has registered, while u2
\* has registered another device since the start
C24_Witness ==
  /\ req.op = "POST /devices/register"
  /\ req.sent.token = Some("u2")
  /\ RegistersAgain(req)
  /\ \E d \in devices : d.deviceId = req.sent.deviceId[1] /\ d.owner = "u1"
  /\ res.status = 400
  /\ Cardinality(devices) > Cardinality(InitDevices)

----------------------------------------------------------------------------
(* C25 *)

\* C25: PUT /api/users/me leaves the caller's email, password and _id as
\* they were, whatever the body, and changes no other user's document.
C25_ProtectedPaths ==
  [][req'.op = "PUT /me" =>
       /\ {u._id : u \in users'} = {u._id : u \in users}
       /\ Cardinality(users') = Cardinality(users)
       /\ \A u \in users : \E v \in users' :
            /\ v._id = u._id /\ v.email = u.email /\ v.password = u.password
            /\ (req'.sent.token = Undefined \/ u._id # req'.sent.token[1]) => v = u]_vars

\* A profile update whose body names email, password and _id, answered 200
\* with the caller's name changed
C25_Witness ==
  /\ req.op = "PUT /me" /\ res.status = 200
  /\ {"email", "password", "_id"} \subseteq DOMAIN req.sent.body
  /\ \E u \in users : u._id = req.sent.token[1] /\ u.fullName = "renamed"

----------------------------------------------------------------------------
(* C27 *)

NoDuplicate(list) == \A i, j \in 1..Len(list) : list[i] = list[j] => i = j

Elements(list) == {list[i] : i \in 1..Len(list)}

\* C27: each user's devices list holds, once each, exactly the ids of the
\* existing devices the user owns.
C27_DevicesListExact ==
  \A u \in users :
    /\ NoDuplicate(u.devices)
    /\ Elements(u.devices) = {d._id : d \in {e \in devices : e.owner = u._id}}

----------------------------------------------------------------------------
(* C28 *)

\* C28: a user's physician is unset or the id of an existing physician; an
\* assignment of an id that names no physician answers 404 and changes
\* nothing.
C28_PhysicianExists ==
  /\ [](\A u \in users : u.physician = Undefined \/ u.physician[1] \in PhysicianIds)
  /\ [][(/\ req'.op = "PUT /me/physician"
          /\ Authenticated(req'.sent.token)
          /\ req'.sent.physicianId = Some(UnknownId))
           => (res'.status = 404 /\ users' = users)]_vars

----------------------------------------------------------------------------
(* C26 *)

SendEvents == {"submit", "keypress", "click"}

\* C26: at most one chat request is outstanding; an event that runs
\* sendMessage while isWaiting is true sends no request and adds no message;
\* when the outstanding request ends, however it ends, isWaiting is false
\* and the input is enabled, and while no request is outstanding the page
\* is not waiting.
C26_OneChatRequest ==
  /\ [](Len(page.requests) <= 1)
  /\ [](page.isWaiting <=> page.requests # <<>>)
  /\ [](page.disabled <=> page.isWaiting)
  /\ [][(page.isWaiting /\ page'.event \in SendEvents)
          => (page'.requests = page.requests /\ page'.messages = page.messages)]_vars
  /\ [][page'.event = "complete" => (~page'.isWaiting /\ ~page'.disabled)]_vars

\* A suggestion was clicked while a request was outstanding: the input holds
\* the suggestion, one request is outstanding, the page waits
C26_Witness ==
  /\ page.event = "click"
  /\ page.isWaiting
  /\ page.value # <<>>
  /\ Len(page.requests) = 1

\* A second message was sent after the first request ended
C26_LaterWitness ==
  /\ page.messages = 3
  /\ page.isWaiting
  /\ page.reply = "error"

====
